---- MODULE Spec2Model ----
(***************************************************************************)
(* Model of sc-bodeplot.py: a frequency sweep that commands a sine         *)
(* generator, picks an oscilloscope sample rate, captures two channels,    *)
(* computes RMS / gain / phase difference per step, appends one record per *)
(* step, then closes the scope and writes the records to a CSV file.       *)
(*                                                                         *)
(* Numbers.  Frequencies are exact rationals <<num, den>> (den > 0, lowest *)
(* terms); the program uses IEEE doubles, whose rounding is not modelled.  *)
(* Angles are integers in units of pi/PiUnits.  An RMS value               *)
(* sqrt(S/n) - D/n is kept exactly as [root |-> S*n, dc |-> D, n |-> n],   *)
(* i.e. (sqrt(root) - dc)/n.                                               *)
(***************************************************************************)
EXTENDS Integers, Sequences, FiniteSets, TLC

VARIABLES
    fstart, fstop, fstep,          \* options.fstart / fstop / fstep
    adapter,                       \* what the scope and the FFT can deliver
    pc,                            \* position in the script
    freq,                          \* freq
    samplerate, sample_id,         \* samplerate, sample_id
    sr_idx,                        \* position of the loop over samplerates
    handle,                        \* scope handle: "none" | "open" | "closed"
    closeCount,                    \* calls of scope.close_handle()
    scopeRate,                     \* sample-rate id last set on the scope
    genFreq,                       \* frequency last commanded to sinewave
    events,                        \* device calls and the append of the current step, in order
    nCaptures,                     \* calls of scope.read_data() that returned
    voltage_data1, voltage_data2,  \* voltage_data1, voltage_data2
    rms1, rms2,                    \* rms1, rms2
    phase1, phase2,                \* fundamental_phase, fundamental_phase2
    deltaphase,                    \* deltaphase
    data,                          \* data: its first MaxRecords rows
    dropped,                       \* data has had rows appended beyond those
    csv                            \* rows written to options.filename

vars == <<fstart, fstop, fstep, adapter, pc, freq, samplerate, sample_id, sr_idx,
          handle, closeCount, scopeRate, genFreq, events, nCaptures,
          voltage_data1, voltage_data2, rms1, rms2, phase1, phase2,
          deltaphase, data, dropped, csv>>

-----------------------------------------------------------------------------
(* Bounds of the model *)

MaxStart == 2       \* fstart ranges over 0 .. MaxStart
MaxStop == 10       \* fstop ranges over 0 .. MaxStop
MaxRecords == 6     \* rows of data the model keeps
NSamples == 2       \* samples per channel kept after the skip
PiUnits == 4        \* pi, in angle units

-----------------------------------------------------------------------------
(* Rational arithmetic *)

Abs(x) == IF x < 0 THEN -x ELSE x

RECURSIVE GCD(_, _)
GCD(a, b) == IF b = 0 THEN a ELSE GCD(b, a % b)

\* <<n, d>> in lowest terms, d > 0
Norm(n, d) ==
    LET g == GCD(Abs(n), d) IN
    IF n = 0 THEN <<0, 1>> ELSE <<n \div g, d \div g>>

Rat(n) == <<n, 1>>

Less(a, b) == a[1] * b[2] < b[1] * a[2]

Mul(a, b) == Norm(a[1] * b[1], a[2] * b[2])

\* Python round() of n/d, d > 0: to nearest, ties to even
Round(n, d) ==
    LET q == n \div d
        r == n % d
    IN  IF 2 * r < d THEN q
        ELSE IF 2 * r > d THEN q + 1
        ELSE IF q % 2 = 0 THEN q ELSE q + 1

RECURSIVE SumSeq(_)
SumSeq(s) == IF s = <<>> THEN 0 ELSE Head(s) + SumSeq(Tail(s))

RECURSIVE SumSq(_)
SumSq(s) == IF s = <<>> THEN 0 ELSE Head(s) * Head(s) + SumSq(Tail(s))

-----------------------------------------------------------------------------
(* Global constants of the script *)

samplerates == <<20, 32, 50, 64, 100, 128, 200, 500, 1000, 2000, 4000, 8000, 10000>>

\* line 78
Table == {samplerates[i] : i \in 1..Len(samplerates)}

-----------------------------------------------------------------------------
(* Sample-rate selection, lines 128-138 *)

\* samplerate_target = 4*freq
Target(f) == <<4 * f[1], f[2]>>

\* SelectStep with the entry tested instead of the running value
SelectStepEntry(cur, sr, target) == IF Less(Rat(sr), target) THEN sr ELSE cur

\* SelectStep with <= for <
SelectStepLeq(cur, sr, target) == IF ~Less(target, Rat(cur)) THEN sr ELSE cur

\* one pass of the loop body: if samplerate < samplerate_target: samplerate = sr
SelectStep(cur, sr, target) == IF Less(Rat(cur), target) THEN sr ELSE cur

\* the sample rate ID of a rate
SampleId(sr) ==
    IF sr < 1000 THEN Round(1000 + sr, 10)   \* int(round(100 + samplerate/10))
    ELSE Round(sr, 1000)                     \* int(round(samplerate/1e3))

-----------------------------------------------------------------------------
(* Analysis, lines 159-220 *)

\* math.sqrt(rms/n) - dc/n, kept exactly as (sqrt(root) - dc)/n
Rms(v) == [root |-> SumSq(v) * Len(v), dc |-> SumSeq(v), n |-> Len(v)]

\* (sqrt(root) - dc)/n = 0
RmsIsZero(r) == r.dc >= 0 /\ r.root = r.dc * r.dc

\* the two folds of deltaphase
WrapPhase(d) ==
    LET d1 == IF d > PiUnits THEN d - 2 * PiUnits ELSE d
    IN  IF d1 < -PiUnits THEN d1 + 2 * PiUnits ELSE d1

\* NextFreq as an additive step
NextFreqAdd(f, step) == Norm(f[1] * step[2] + step[1] * f[2], f[2] * step[2])

\* NextFreq that leaves the frequency where it is
NextFreqSame(f, step) == f

\* freq*options.fstep
NextFreq(f, step) == Mul(f, step)

\* the row appended to data
Record(f, r1, r2, dp) ==
    [freq |-> f, rms1 |-> r1, rms2 |-> r2,
     gain |-> [num |-> r1, den |-> r2], phase |-> dp]

-----------------------------------------------------------------------------
(* Inputs *)

Starts == 0 .. MaxStart
Stops == 0 .. MaxStop
Ratios == {<<1, 1>>, <<3, 2>>, <<2, 1>>}

Volts == {-1, 0, 1}
\* every waveform of NSamples samples over Volts
AllWaves == [1..NSamples -> Volts]
\* offset c, alternating amplitude a
Wave(c, a) == [i \in 1..NSamples |-> c + a * (IF i % 2 = 1 THEN 1 ELSE -1)]
\* the range of np.angle that the wrap is specified for: (-pi, pi]
Phases == (1 - PiUnits) .. PiUnits

\* the device of a sweep: a sine on channel 1, a sine or a positive DC level on
\* channel 2, channel 1 a quarter turn behind channel 2
SweepAdapter ==
    [waves1 |-> {Wave(0, 1)},
     waves2 |-> {Wave(0, 1), Wave(1, 0)},
     phases1 |-> {0},
     phases2 |-> {PiUnits \div 2}]

\* the device of the analysis on its own: every waveform and every phase
FullAdapter ==
    [waves1 |-> AllWaves, waves2 |-> AllWaves, phases1 |-> Phases, phases2 |-> Phases]

NoRms == [root |-> 0, dc |-> 0, n |-> 1]

-----------------------------------------------------------------------------
(* State after argument parsing, before the scope is set up (lines 73-98) *)

Blank ==
    /\ freq = Rat(0)
    /\ samplerate = 0
    /\ sample_id = 0
    /\ sr_idx = 0
    /\ scopeRate = 0
    /\ genFreq = Rat(0)
    /\ events = <<>>
    /\ nCaptures = 0
    /\ voltage_data1 = <<>>
    /\ voltage_data2 = <<>>
    /\ rms1 = NoRms
    /\ rms2 = NoRms
    /\ phase1 = 0
    /\ phase2 = 0
    /\ deltaphase = 0
    /\ data = <<>>
    /\ dropped = FALSE
    /\ csv = <<>>

Init ==
    /\ fstart \in Starts
    /\ fstop \in Stops
    /\ fstep \in Ratios
    /\ adapter = SweepAdapter
    /\ pc = "open"
    /\ handle = "none"
    /\ closeCount = 0
    /\ Blank

-----------------------------------------------------------------------------
(* The script, one action per statement group *)

\* an uncaught exception ends the script where it is raised
Raise ==
    pc' = "crashed"

\* lines 101-103: scope = Oscilloscope(); scope.setup(); scope.open_handle()
OpenHandle ==
    /\ pc = "open"
    /\ \/ /\ handle' = "open"
          /\ pc' = "configure"
       \/ /\ Raise
          /\ UNCHANGED handle
    /\ UNCHANGED <<fstart, fstop, fstep, adapter, freq, samplerate, sample_id, sr_idx,
                   closeCount, scopeRate, genFreq, events, nCaptures,
                   voltage_data1, voltage_data2, rms1, rms2, phase1, phase2,
                   deltaphase, data, dropped, csv>>

\* lines 106-116: firmware, channels, ranges, coupling
Configure ==
    /\ pc = "configure"
    /\ pc' = "start"
    /\ UNCHANGED <<fstart, fstop, fstep, adapter, freq, samplerate, sample_id, sr_idx,
                   handle, closeCount, scopeRate, genFreq, events, nCaptures,
                   voltage_data1, voltage_data2, rms1, rms2, phase1, phase2,
                   deltaphase, data, dropped, csv>>

\* lines 119-122: freq = options.fstart; sinewave.play(); data = []
StartSweep ==
    /\ pc = "start"
    /\ freq' = Rat(fstart)
    /\ data' = <<>>
    /\ dropped' = FALSE
    /\ pc' = "test"
    /\ UNCHANGED <<fstart, fstop, fstep, adapter, samplerate, sample_id, sr_idx,
                   handle, closeCount, scopeRate, genFreq, events, nCaptures,
                   voltage_data1, voltage_data2, rms1, rms2, phase1, phase2,
                   deltaphase, csv>>

\* line 124: while(freq < options.fstop)
LoopTest ==
    /\ pc = "test"
    /\ IF Less(freq, Rat(fstop))
       THEN /\ events' = <<>>
            /\ pc' = "setfreq"
       ELSE /\ pc' = "close"
            /\ UNCHANGED events
    /\ UNCHANGED <<fstart, fstop, fstep, adapter, freq, samplerate, sample_id, sr_idx,
                   handle, closeCount, scopeRate, genFreq, nCaptures,
                   voltage_data1, voltage_data2, rms1, rms2, phase1, phase2,
                   deltaphase, data, dropped, csv>>

\* line 125: sinewave.set_frequency(freq)
SetFrequency ==
    /\ pc = "setfreq"
    /\ genFreq' = freq
    /\ events' = Append(events, "set_frequency")
    /\ pc' = "select"
    /\ UNCHANGED <<fstart, fstop, fstep, adapter, freq, samplerate, sample_id, sr_idx,
                   handle, closeCount, scopeRate, nCaptures,
                   voltage_data1, voltage_data2, rms1, rms2, phase1, phase2,
                   deltaphase, data, dropped, csv>>

\* lines 128-129: samplerate_target = 4*freq; samplerate = samplerates[0]
SelectBegin ==
    /\ pc = "select"
    /\ samplerate' = samplerates[1]
    /\ sr_idx' = 1
    /\ pc' = "selectloop"
    /\ UNCHANGED <<fstart, fstop, fstep, adapter, freq, sample_id,
                   handle, closeCount, scopeRate, genFreq, events, nCaptures,
                   voltage_data1, voltage_data2, rms1, rms2, phase1, phase2,
                   deltaphase, data, dropped, csv>>

\* lines 130-132: one pass of: for sr in samplerates
SelectPass ==
    /\ pc = "selectloop"
    /\ samplerate' = SelectStep(samplerate, samplerates[sr_idx], Target(freq))
    /\ sr_idx' = sr_idx + 1
    /\ pc' = IF sr_idx = Len(samplerates) THEN "setrate" ELSE "selectloop"
    /\ UNCHANGED <<fstart, fstop, fstep, adapter, freq, sample_id,
                   handle, closeCount, scopeRate, genFreq, events, nCaptures,
                   voltage_data1, voltage_data2, rms1, rms2, phase1, phase2,
                   deltaphase, data, dropped, csv>>

\* SetSampleRate that hands the scope the id of the step before
SetSampleRateStale ==
    /\ pc = "setrate"
    /\ sample_id' = SampleId(samplerate)
    /\ \/ /\ scopeRate' = sample_id
          /\ events' = Append(events, "set_sample_rate")
          /\ pc' = "settle"
       \/ /\ Raise
          /\ UNCHANGED <<scopeRate, events>>
    /\ UNCHANGED <<fstart, fstop, fstep, adapter, freq, samplerate, sr_idx,
                   handle, closeCount, genFreq, nCaptures,
                   voltage_data1, voltage_data2, rms1, rms2, phase1, phase2,
                   deltaphase, data, dropped, csv>>

\* lines 134-138: sample_id = ...; scope.set_sample_rate(sample_id)
SetSampleRate ==
    /\ pc = "setrate"
    /\ sample_id' = SampleId(samplerate)
    /\ \/ /\ scopeRate' = sample_id'
          /\ events' = Append(events, "set_sample_rate")
          /\ pc' = "settle"
       \/ /\ Raise
          /\ UNCHANGED <<scopeRate, events>>
    /\ UNCHANGED <<fstart, fstop, fstep, adapter, freq, samplerate, sr_idx,
                   handle, closeCount, genFreq, nCaptures,
                   voltage_data1, voltage_data2, rms1, rms2, phase1, phase2,
                   deltaphase, data, dropped, csv>>

\* lines 145-148: scope.get_calibration_values(); time.sleep(0.08)
Settle ==
    /\ pc = "settle"
    /\ events' = Append(events, "sleep")
    /\ pc' = "capture"
    /\ UNCHANGED <<fstart, fstop, fstep, adapter, freq, samplerate, sample_id, sr_idx,
                   handle, closeCount, scopeRate, genFreq, nCaptures,
                   voltage_data1, voltage_data2, rms1, rms2, phase1, phase2,
                   deltaphase, data, dropped, csv>>

\* lines 151-157: scope.read_data(data_points), the skip, scale_read_data
Capture ==
    /\ pc = "capture"
    /\ \/ /\ \E w1 \in adapter.waves1, w2 \in adapter.waves2 :
                /\ voltage_data1' = w1
                /\ voltage_data2' = w2
          /\ nCaptures' = IF dropped THEN nCaptures ELSE nCaptures + 1
          /\ events' = Append(events, "read_data")
          /\ pc' = "rms"
       \/ /\ Raise
          /\ UNCHANGED <<voltage_data1, voltage_data2, nCaptures, events>>
    /\ UNCHANGED <<fstart, fstop, fstep, adapter, freq, samplerate, sample_id, sr_idx,
                   handle, closeCount, scopeRate, genFreq,
                   rms1, rms2, phase1, phase2, deltaphase, data, dropped, csv>>

\* lines 159-177: rms1, rms2
ComputeRms ==
    /\ pc = "rms"
    /\ rms1' = Rms(voltage_data1)
    /\ rms2' = Rms(voltage_data2)
    /\ pc' = "fft"
    /\ UNCHANGED <<fstart, fstop, fstep, adapter, freq, samplerate, sample_id, sr_idx,
                   handle, closeCount, scopeRate, genFreq, events, nCaptures,
                   voltage_data1, voltage_data2, phase1, phase2,
                   deltaphase, data, dropped, csv>>

\* lines 179-213: the phase of the largest non-DC bin of each channel's FFT.
\* The spectrum is not computed here: the phase is any value the device's
\* waveform can give.
ComputeFFT ==
    /\ pc = "fft"
    /\ \E p1 \in adapter.phases1, p2 \in adapter.phases2 :
          /\ phase1' = p1
          /\ phase2' = p2
    /\ pc' = "phase"
    /\ UNCHANGED <<fstart, fstop, fstep, adapter, freq, samplerate, sample_id, sr_idx,
                   handle, closeCount, scopeRate, genFreq, events, nCaptures,
                   voltage_data1, voltage_data2, rms1, rms2,
                   deltaphase, data, dropped, csv>>

\* lines 216-220: deltaphase
PhaseDifference ==
    /\ pc = "phase"
    /\ deltaphase' = WrapPhase(phase1 - phase2)
    /\ pc' = "append"
    /\ UNCHANGED <<fstart, fstop, fstep, adapter, freq, samplerate, sample_id, sr_idx,
                   handle, closeCount, scopeRate, genFreq, events, nCaptures,
                   voltage_data1, voltage_data2, rms1, rms2, phase1, phase2,
                   data, dropped, csv>>

\* data.append(row), of which the model keeps the first MaxRecords rows
Keep(row) ==
    IF Len(data) < MaxRecords
    THEN data' = Append(data, row) /\ UNCHANGED dropped
    ELSE dropped' = TRUE /\ UNCHANGED data

\* AppendRecord with a division that yields inf or nan instead of raising
AppendRecordNoRaise ==
    /\ pc = "append"
    /\ Keep(Record(freq, rms1, rms2, deltaphase))
    /\ events' = Append(events, "append")
    /\ freq' = NextFreq(freq, fstep)
    /\ pc' = "test"
    /\ UNCHANGED <<fstart, fstop, fstep, adapter, samplerate, sample_id, sr_idx,
                   handle, closeCount, scopeRate, genFreq, nCaptures,
                   voltage_data1, voltage_data2, rms1, rms2, phase1, phase2,
                   deltaphase, csv>>

\* lines 223-226: data.append([freq, rms1, rms2, rms1/rms2, deltaphase]);
\* freq = freq*options.fstep.  rms1/rms2 raises ZeroDivisionError when rms2 is 0.
AppendRecord ==
    /\ pc = "append"
    /\ IF RmsIsZero(rms2)
       THEN /\ Raise
            /\ UNCHANGED <<data, dropped, freq, events>>
       ELSE /\ Keep(Record(freq, rms1, rms2, deltaphase))
            /\ events' = Append(events, "append")
            /\ freq' = NextFreq(freq, fstep)
            /\ pc' = "test"
    /\ UNCHANGED <<fstart, fstop, fstep, adapter, samplerate, sample_id, sr_idx,
                   handle, closeCount, scopeRate, genFreq, nCaptures,
                   voltage_data1, voltage_data2, rms1, rms2, phase1, phase2,
                   deltaphase, csv>>

\* lines 229-230: scope.close_handle(); sinewave.stop()
CloseHandle ==
    /\ pc = "close"
    /\ handle' = "closed"
    /\ closeCount' = closeCount + 1
    /\ pc' = "write"
    /\ UNCHANGED <<fstart, fstop, fstep, adapter, freq, samplerate, sample_id, sr_idx,
                   scopeRate, genFreq, events, nCaptures,
                   voltage_data1, voltage_data2, rms1, rms2, phase1, phase2,
                   deltaphase, data, dropped, csv>>

\* lines 233-236: the header row and writer.writerows(data)
WriteCsv ==
    /\ pc = "write"
    /\ csv' = data
    /\ pc' = "done"
    /\ UNCHANGED <<fstart, fstop, fstep, adapter, freq, samplerate, sample_id, sr_idx,
                   handle, closeCount, scopeRate, genFreq, events, nCaptures,
                   voltage_data1, voltage_data2, rms1, rms2, phase1, phase2,
                   deltaphase, data, dropped>>

Next ==
    \/ OpenHandle
    \/ Configure
    \/ StartSweep
    \/ LoopTest
    \/ SetFrequency
    \/ SelectBegin
    \/ SelectPass
    \/ SetSampleRate
    \/ Settle
    \/ Capture
    \/ ComputeRms
    \/ ComputeFFT
    \/ PhaseDifference
    \/ AppendRecord
    \/ CloseHandle
    \/ WriteCsv

Spec == Init /\ [][Next]_vars

\* the interpreter runs the script to its end: every statement that can run does
FairSpec == Init /\ [][Next]_vars /\ WF_vars(Next)

-----------------------------------------------------------------------------
(* The selection on its own: the script stands at line 128 in its first     *)
(* step, for start frequencies whose target 4*freq lies at, just below and  *)
(* just above every table entry, below the whole table and above it.        *)

SelStarts ==
    {n \in -1 .. (samplerates[Len(samplerates)] \div 4) + 1 :
        \/ \E e \in Table : Abs(4 * n - e) <= 4
        \/ n <= 1}

SelInit ==
    /\ fstart \in SelStarts
    /\ fstop = samplerates[Len(samplerates)]
    /\ fstep = <<2, 1>>
    /\ adapter = SweepAdapter
    /\ pc = "select"
    /\ handle = "open"
    /\ closeCount = 0
    /\ freq = Rat(fstart)
    /\ genFreq = Rat(fstart)
    /\ events = <<"set_frequency">>
    /\ samplerate = 0
    /\ sample_id = 0
    /\ sr_idx = 0
    /\ scopeRate = 0
    /\ nCaptures = 0
    /\ voltage_data1 = <<>>
    /\ voltage_data2 = <<>>
    /\ rms1 = NoRms
    /\ rms2 = NoRms
    /\ phase1 = 0
    /\ phase2 = 0
    /\ deltaphase = 0
    /\ data = <<>>
    /\ dropped = FALSE
    /\ csv = <<>>

SelNext ==
    \/ SelectBegin
    \/ SelectPass
    \/ SetSampleRate

SelSpec == SelInit /\ [][SelNext]_vars

-----------------------------------------------------------------------------
(* The analysis on its own: the script stands at line 151 in the only step  *)
(* of a sweep from 1 Hz to 2 Hz, and the device can deliver every waveform  *)
(* and every phase.                                                         *)

AnaInit ==
    /\ fstart = 1
    /\ fstop = 2
    /\ fstep = <<2, 1>>
    /\ adapter = FullAdapter
    /\ pc = "capture"
    /\ handle = "open"
    /\ closeCount = 0
    /\ freq = Rat(fstart)
    /\ genFreq = Rat(fstart)
    /\ events = <<"set_frequency", "set_sample_rate", "sleep">>
    /\ samplerate = samplerates[1]
    /\ sample_id = SampleId(samplerate)
    /\ sr_idx = Len(samplerates) + 1
    /\ scopeRate = sample_id
    /\ nCaptures = 0
    /\ voltage_data1 = <<>>
    /\ voltage_data2 = <<>>
    /\ rms1 = NoRms
    /\ rms2 = NoRms
    /\ phase1 = 0
    /\ phase2 = 0
    /\ deltaphase = 0
    /\ data = <<>>
    /\ dropped = FALSE
    /\ csv = <<>>

AnaNext ==
    \/ Capture
    \/ ComputeRms
    \/ ComputeFFT
    \/ PhaseDifference
    \/ AppendRecord

AnaSpec == AnaInit /\ [][AnaNext]_vars

-----------------------------------------------------------------------------
(* Properties *)

Max(S) == CHOOSE x \in S : \A y \in S : y <= x
Min(S) == CHOOSE x \in S : \A y \in S : x <= y

\* the selection for the current freq has run and freq has not moved since
Selected == pc \in {"setrate", "settle", "capture", "rms", "fft", "phase", "append"}

\* minimum_rate = 4*frequency
MinimumRate == <<4 * freq[1], freq[2]>>
\* the table entries strictly below minimum_rate, and the others
Below == {e \in Table : e * MinimumRate[2] < MinimumRate[1]}
AtLeast == Table \ Below

\* C1, as claimed: the selected rate is the largest table entry strictly below
\* minimum_rate (so the highest entry when every entry is below it), and the
\* lowest entry when no entry is below it.
C1_Claimed ==
    Selected => samplerate = (IF Below = {} THEN Min(Table) ELSE Max(Below))

\* C1, amended: the selected rate is the smallest table entry that is not below
\* minimum_rate; it is the highest entry, 10000, when every entry is below
\* minimum_rate, and the lowest entry, 20, when no entry is below it.
C1_SmallestNotBelow ==
    Selected =>
        /\ AtLeast # {} => samplerate = Min(AtLeast)
        /\ AtLeast = {} => samplerate = 10000
        /\ Below = {} => samplerate = 20

\* a selection with entries on both sides of minimum_rate, where the smallest
\* entry not below it and the largest entry below it differ
C1_Witness ==
    /\ Selected
    /\ Below # {}
    /\ AtLeast # {}
    /\ samplerate = Min(AtLeast)
    /\ samplerate # Max(Below)

\* C2: when some table entry is >= 4*frequency, the selected rate r satisfies
\* r >= 4*frequency and no table entry smaller than r does.
C2_SmallestSatisfying ==
    (Selected /\ \E e \in Table : e * freq[2] >= 4 * freq[1]) =>
        /\ samplerate * freq[2] >= 4 * freq[1]
        /\ \A e \in Table : e < samplerate => ~(e * freq[2] >= 4 * freq[1])

\* a selection above the lowest entry, once with 4*frequency equal to the entry
\* selected
C2_Witness ==
    /\ Selected
    /\ samplerate \in Table
    /\ samplerate > 20
    /\ samplerate * freq[2] = 4 * freq[1]

-----------------------------------------------------------------------------
(* The sweep *)

RECURSIVE Pow(_, _)
Pow(r, k) == IF k = 0 THEN Rat(1) ELSE Mul(r, Pow(r, k - 1))

\* start_frequency * step_ratio^k
Term(k) == Mul(Rat(fstart), Pow(fstep, k))

\* the k >= 0 with start * step_ratio^k < stop, among the first MaxRecords + 1
TermsBelowStop == {k \in 0..MaxRecords : Less(Term(k), Rat(fstop))}

ValidSweep == fstart > 0 /\ fstop > fstart /\ Less(Rat(1), fstep)

\* the validity conditions the specification states
StatedValid == fstop > fstart /\ Less(Rat(1), fstep)

\* the loop has been left through its test
LoopExited == pc \in {"close", "write", "done"}

\* C3: with start > 0, stop > start and ratio > 1 the k-th record (k >= 0) has
\* frequency start * ratio^k, the recorded frequencies are strictly increasing
\* and strictly below stop, and when the loop has been left there is exactly
\* one record per k with start * ratio^k < stop.
C3_GeometricFrequencies ==
    ValidSweep =>
        /\ \A k \in 1..Len(data) :
              /\ data[k].freq = Term(k - 1)
              /\ Less(data[k].freq, Rat(fstop))
        /\ \A k \in 1..(Len(data) - 1) : Less(data[k].freq, data[k + 1].freq)
        /\ LoopExited => Len(data) = Cardinality(TermsBelowStop)
        /\ ~dropped

\* the sweep from 1 to 10 with ratio 2 has ended with the records 1, 2, 4, 8
C3_Witness ==
    /\ ValidSweep
    /\ pc = "done"
    /\ fstart = 1 /\ fstop = 10 /\ fstep = <<2, 1>>
    /\ [k \in 1..Len(data) |-> data[k].freq] = <<Rat(1), Rat(2), Rat(4), Rat(8)>>

\* the loop has been left with frequency >= stop_frequency
Done == LoopExited /\ ~Less(freq, Rat(fstop))

\* a statement has raised
Failed == pc = "crashed"

\* C4, as claimed: for every start, with stop > start and ratio > 1, a run in
\* which no statement raises eventually leaves the loop with frequency >= stop.
C4_Claimed ==
    StatedValid ~> (Done \/ Failed)

\* C4, amended: with start > 0, stop > start and ratio > 1, a run in which no
\* statement raises eventually leaves the loop with frequency >= stop.
C4_Terminates == ValidSweep ~> (Done \/ Failed)

\* a valid sweep of MaxRecords steps has reached Done
C4_Witness ==
    /\ ValidSweep
    /\ Done
    /\ Len(data) = MaxRecords
    /\ pc = "done"

\* the script has ended: its last statement has run, or a statement has raised
Ended == pc \in {"done", "crashed"}

\* C5: in every run that has opened the scope handle, the handle has been
\* closed exactly once when the script ends.
C5_ClosedOnce ==
    (Ended /\ handle # "none") => (handle = "closed" /\ closeCount = 1)

\* C6: when a step fails no later step runs, and the records of the steps
\* completed before it have been written to the result file.
C6_PartialPersisted ==
    Failed =>
        /\ nCaptures <= Len(data) + 1
        /\ csv = data

-----------------------------------------------------------------------------
(* The analysis *)

\* the value (sqrt(root) - dc)/n of an RMS is 0: sqrt(root) = dc
IsZeroValue(r) == r.dc >= 0 /\ r.dc * r.dc = r.root

\* every sample has the same value
IsConstant(v) == \A i, j \in 1..Len(v) : v[i] = v[j]

\* the analysis of this step has computed the quantity
RmsComputed == pc \in {"fft", "phase", "append"}

\* C7: the phase difference of every step, and of every record, is strictly
\* greater than -pi and at most pi.
C7_HalfOpen ==
    /\ pc = "append" => (-PiUnits < deltaphase /\ deltaphase <= PiUnits)
    /\ \A k \in 1..Len(data) : -PiUnits < data[k].phase /\ data[k].phase <= PiUnits

\* C8: a step whose channel-2 RMS is 0 fails at the gain division and appends
\* nothing, and no record is ever appended whose gain has a zero denominator.
C8_ZeroReferenceRaises ==
    [][/\ (pc = "append" /\ rms2 = Rms(voltage_data2) /\ IsZeroValue(rms2))
            => (pc' = "crashed" /\ data' = data)
       /\ \A k \in 1..Len(data') : ~IsZeroValue(data'[k].gain.den)]_vars

\* a step has failed after its capture, on a channel-2 RMS of 0
C8_Witness ==
    /\ pc = "crashed"
    /\ Len(events) = 4
    /\ voltage_data2 # <<>>
    /\ rms2 = Rms(voltage_data2)
    /\ IsZeroValue(rms2)
    /\ data = <<>>

\* C9: for a channel whose samples all have the same value, of either sign,
\* the rms computed is 0.
C9_DcOnlyZero ==
    RmsComputed =>
        /\ IsConstant(voltage_data1) => IsZeroValue(rms1)
        /\ IsConstant(voltage_data2) => IsZeroValue(rms2)

-----------------------------------------------------------------------------
(* The order of a step *)

StepOrder == <<"set_frequency", "set_sample_rate", "sleep", "read_data", "append">>

\* the rate the selection gives for the current freq
Chosen == IF AtLeast = {} THEN Max(Table) ELSE Min(AtLeast)

\* C10: the calls of a step come in the order set_frequency, set_sample_rate,
\* sleep, read_data, append; from the frequency command to the append the
\* generator holds the step's frequency, and from set_sample_rate on the scope
\* holds the id of the rate chosen for that frequency; a capture is taken only
\* when every earlier capture has its record, and the record appended carries
\* the commanded frequency.
C10_StepOrder ==
    /\ Len(events) <= Len(StepOrder)
    /\ events = SubSeq(StepOrder, 1, Len(events))
    /\ Len(events) \in 1..4 => genFreq = freq
    /\ Len(events) \in 2..4 => scopeRate = SampleId(Chosen)
    /\ ~dropped =>
          /\ nCaptures = Len(data) + (IF Len(events) = 4 THEN 1 ELSE 0)
          /\ Len(events) = 5 => data[Len(data)].freq = genFreq

\* the capture of the third step has been taken, at a rate other than the
\* first step's, with two records appended
C10_Witness ==
    /\ pc = "rms"
    /\ nCaptures = 3
    /\ Len(data) = 2
    /\ events = SubSeq(StepOrder, 1, 4)
    /\ scopeRate # SampleId(samplerates[1])
    /\ data[1].freq # genFreq

====
